---- MODULE Spec2Model ----
(***************************************************************************)
(* Verification model of File-Support-VUS: the batch orchestrator of       *)
(* pages/PDFProcessor.tsx, the viewing surface of components/PDFViewer.tsx *)
(* and the red-ink removal pipeline of services/geminiService (the third   *)
(* unit concatenated in components/PDFViewer.tsx).                         *)
(*                                                                         *)
(* Every action is one run-to-completion slice of the single JavaScript    *)
(* thread: the code between two suspension points (await), with the React  *)
(* state updates it queues committed at the end of the slice.  The banner  *)
(* text globalError is written by the handlers and read by none of them;   *)
(* it is left out of the state.                                            *)
(***************************************************************************)
EXTENDS Integers, Sequences, FiniteSets, TLC

\* ------------------------------------------------------------------------
\* Bounds of the model
\* ------------------------------------------------------------------------
MaxPages == 2
MaxRuns == 2
MaxIds == 2
MaxAddFiles == 2
MaxAdds == 1
MAX_UPLOAD_FILES == 2
MaxFileChanges == 1
MaxRenders == 3
MaxPixels == 3
MaxMaskPixels == 6
MaxTextLen == 3
MaxReloads == 1
MaxOverlap == 2
MaxNewIds == 3
MaxDownloads == 1

\* ------------------------------------------------------------------------
\* State of PDFProcessor
\* ------------------------------------------------------------------------
VARIABLES
  uploadedFiles,        \* useState<UploadedFile[]>: the ids, in list order
  activeFileId,         \* useState<string>: 0 stands for ''
  fileStates,           \* useState<Record<string, FileProcessingState>>
  isGlobalProcessing,   \* useState<boolean>
  runs,                 \* the calls of handleProcessAllFiles, in call order
  adds,                 \* the calls of handleFilesAdded suspended in reading
  nextId                \* number of file ids generated so far

batchVars == <<uploadedFiles, activeFileId, fileStates, isGlobalProcessing,
               runs, adds, nextId>>

\* ------------------------------------------------------------------------
\* State of one PDFViewer (the viewing surface)
\* ------------------------------------------------------------------------
VARIABLES
  file,             \* the file prop: 0 stands for null, otherwise a document
  pdfRef,           \* pdfRef.current: 0 for null, else the load that made it
  destroyed,        \* the document handles on which destroy() was called
  renderTask,       \* renderTaskRef.current: 0, or the render owning the task
  cancelledTasks,   \* the render tasks on which cancel() took effect
  renderCache,      \* renderCacheRef.current: page number -> CachedPage
  renderToken,      \* renderTokenRef.current
  numPages,         \* useState<number>
  pageNumber,       \* useState<number>
  isLoading,        \* useState<boolean>
  error,            \* useState<string>
  pagePreview,      \* useState<string>
  loads,            \* the calls of load(), in call order
  renders,          \* the calls of render(), indexed by their token
  docLoads,         \* the numPages passed to onDocumentLoad, in call order
  images,           \* the images passed to onPDFToImage, in call order
  imageOfFile,      \* the parent's currentImageData of each viewer document
  fileGen           \* number of changes of the file prop so far

viewerVars == <<file, pdfRef, destroyed, renderTask, cancelledTasks,
                renderCache, renderToken, numPages, pageNumber, isLoading,
                error, pagePreview, loads, renders, docLoads, images,
                imageOfFile, fileGen>>

\* one call of removeRedMarkings: the decoded RGBA buffer, the tuning, the
\* locals of processImageRemoveRed, the position of the call and its result
VARIABLES imgWidth, imgHeight, imgData, imgTuning, imgMask, imgDilated, imgOut,
          imgStage, imgError

imageVars == <<imgWidth, imgHeight, imgData, imgTuning, imgMask, imgDilated,
               imgOut, imgStage, imgError>>

\* one call of inHueRange(h, a, b): the arguments, the position, the result
VARIABLES hueArgs, huePc, hueMember

hueVars == <<hueArgs, huePc, hueMember>>

\* one call of getTuningFromGemini: whether a client was configured, whether
\* the data URL has a payload, whether generateContent threw, the response
\* text, the value JSON.parse returned, the position of the call and the
\* profile it resolved to
VARIABLES genAI, base64Data, queryThrew, responseText, parsed, resolverPc,
          tuningResult

resolverVars == <<genAI, base64Data, queryThrew, responseText, parsed,
                  resolverPc, tuningResult>>

\* what outlives a reload of the page, and the hydration effect
VARIABLES
  localStorage,     \* the payload under STORAGE_KEY, or NoPayload
  storedData,       \* the ids with a file-<id> entry in IndexedDB
  storedStates,     \* the state-<id> entries in IndexedDB: id -> state
  hydrate,          \* the hydration effect: its position and the payload read
  reloads           \* number of reloads of the page so far

storeVars == <<localStorage, storedData, storedStates, hydrate, reloads>>

\* the calls of handleDownloadPdf suspended in building the PDF: the id of
\* the file each one captured
VARIABLES downloads

unitVars == <<hueVars, resolverVars, storeVars, downloads>>

vars == <<batchVars, viewerVars, imageVars, unitVars>>

\* '' as an image (a data URL); images are tuples <<kind, file, page>>
NoImage == <<>>

\* canvas.toDataURL of page k of file id rendered by renderPdfPageToImage
PageImage(id, k) == <<"page", id, k>>

\* the data URL processImageRemoveRed resolves with for a page image
CleanImage(img) == <<"clean", img[2], img[3]>>

\* window.localStorage.getItem(STORAGE_KEY) returning null
NoPayload == [present |-> FALSE, activeFileId |-> 0, files |-> <<>>]

createInitialFileState ==
  [currentImageData |-> NoImage,
   processedImageData |-> NoImage,
   processedPages |-> <<>>,
   previewPageIndex |-> 0,
   batchProgress |-> [current |-> 0, total |-> 0],
   totalPages |-> 0,
   isBatchProcessing |-> FALSE,
   error |-> ""]

\* prev[fileId] ?? createInitialFileState()
StateOf(fs, fileId) ==
  IF fileId \in DOMAIN fs THEN fs[fileId] ELSE createInitialFileState

\* updated is the value of the updater at StateOf(fs, fileId)
updateFileState(fs, fileId, updated) ==
  IF fileId = 0 THEN fs
  ELSE [x \in (DOMAIN fs) \cup {fileId} |->
          IF x = fileId THEN updated ELSE fs[x]]

anyFileProcessing ==
  \/ isGlobalProcessing
  \/ \E id \in DOMAIN fileStates : fileStates[id].isBatchProcessing

FileIds == { uploadedFiles[i] : i \in 1..Len(uploadedFiles) }

\* messages raised by the collaborators
LoadError == "Invalid PDF structure."
RenderError == "Khong the tao canvas de render PDF"
InpaintErrors == {"Could not get canvas context", "Failed to load image"}

\* result.error || `Khong the xu ly trang ${pageNumber}`
ErrorOr(msg, pageNo) ==
  IF msg # "" THEN msg ELSE "Khong the xu ly trang " \o ToString(pageNo)

\* ------------------------------------------------------------------------
\* processSingleFile
\* ------------------------------------------------------------------------

\* the reset at the start of a job; runs before the first await
JobStart(fs, fileId) ==
  updateFileState(fs, fileId, 
    [StateOf(fs, fileId) EXCEPT !.isBatchProcessing = TRUE,
                 !.error = "",
                 !.processedPages = <<>>,
                 !.processedImageData = NoImage,
                 !.previewPageIndex = 0,
                 !.batchProgress = [current |-> 0, total |-> 0]])

\* the document is loaded: total is pdfInstance.numPages
JobLoaded(fs, fileId, total) ==
  updateFileState(fs, fileId, 
    [StateOf(fs, fileId) EXCEPT !.totalPages = total,
                 !.batchProgress = [current |-> 0, total |-> total]])

\* a page was pushed to the local array `processed`
JobProgress(fs, fileId, pageNo, total) ==
  updateFileState(fs, fileId, 
    [StateOf(fs, fileId) EXCEPT !.batchProgress = [current |-> pageNo, total |-> total]])

\* the loop ended: the local array is published
JobPublish(fs, fileId, processed) ==
  updateFileState(fs, fileId, 
    [StateOf(fs, fileId) EXCEPT !.processedPages = processed,
                 !.processedImageData =
                     IF Len(processed) > 0 THEN processed[1] ELSE NoImage,
                 !.previewPageIndex = 0,
                 !.error = ""])

\* catch (err)
JobCatchGeneric(fs, fileId, message) ==
  updateFileState(fs, fileId, 
    [StateOf(fs, fileId) EXCEPT !.error = "Loi khi xu ly PDF"])

JobCatch(fs, fileId, message) ==
  updateFileState(fs, fileId,  [StateOf(fs, fileId) EXCEPT !.error = message])

\* finally
JobFinallyLeaky(fs, fileId) == fs

JobFinally(fs, fileId) ==
  updateFileState(fs, fileId, 
    [StateOf(fs, fileId) EXCEPT !.isBatchProcessing = FALSE])

\* for (let pageNumber = 1; ...; pageNumber++)
NextPageSkipping(pageNo) == pageNo + 2

NextPage(pageNo) == pageNo + 1

\* ------------------------------------------------------------------------
\* handleProcessAllFiles
\* ------------------------------------------------------------------------

\* what happened to the job of one file of a run (kept for the properties):
\* total is numPages once loaded, failPage is -1 while nothing failed, 0 when
\* the load failed, k when page k failed; message is the raised message
NoOutcome == [total |-> 0, failPage |-> -1, stage |-> "", message |-> ""]

NewRun(files) ==
  [files |-> files, idx |-> 1, pc |-> "load", pageNumber |-> 0, total |-> 0,
   processed |-> <<>>, started |-> {1}, rasterized |-> <<>>,
   outcome |-> [i \in 1..Len(files) |-> NoOutcome]]

\* a call of handleProcessAllFiles that has returned
DoneRun == [pc |-> "done"]

ActiveRuns == { r \in 1..Len(runs) : runs[r].pc # "done" }

JobFailed(run, i) == run.outcome[i].failPage # -1

\* finally { setIsGlobalProcessing(false) }
RunFinallyMissing(flag) == flag

RunFinally(flag) == FALSE

\* for (const file of uploadedFiles) await processSingleFile(file):
\* processSingleFile never rejects, so the loop goes on to the next file
NextFileHalting(run) ==
  IF JobFailed(run, run.idx) THEN Len(run.files) + 1 ELSE run.idx + 1

NextFile(run) == run.idx + 1

\* if (isGlobalProcessing) return
BatchGuardOpen(flag) == FALSE

BatchGuard(flag) == flag

handleProcessAllFiles ==
  /\ UNCHANGED <<viewerVars, imageVars, unitVars>>
  /\ UNCHANGED <<uploadedFiles, activeFileId, adds, nextId>>
  /\ IF Len(uploadedFiles) = 0 \/ BatchGuard(isGlobalProcessing)
     THEN UNCHANGED <<fileStates, isGlobalProcessing, runs>>
     ELSE /\ Len(runs) < MaxRuns
          /\ isGlobalProcessing' = TRUE
          /\ runs' = Append(runs, NewRun(uploadedFiles))
          /\ fileStates' = JobStart(fileStates, uploadedFiles[1])

\* the current job of run r is over, leaving the run record run and the file
\* states fs: start the next file's job, or leave the loop and clear the flag
Advance(r, run, fs) ==
  LET n == NextFile(run)
  IN IF n <= Len(run.files)
     THEN /\ fileStates' = JobStart(fs, run.files[n])
          /\ runs' = [runs EXCEPT ![r] =
                        [run EXCEPT !.idx = n, !.pc = "load", !.pageNumber = 0,
                                    !.total = 0, !.processed = <<>>,
                                    !.started = @ \cup {n}]]
          /\ UNCHANGED isGlobalProcessing
     ELSE /\ fileStates' = fs
          /\ runs' = [runs EXCEPT ![r] = DoneRun]
          /\ isGlobalProcessing' = RunFinally(isGlobalProcessing)

\* pdf.numPages of the document uploaded under an id: the uploads differ in
\* length, the first one is the shortest
PageCount(id) == ((id - 1) % MaxPages) + 1

\* await file.file.arrayBuffer(); await loadingTask.promise
LoadDone(r) ==
  /\ UNCHANGED <<viewerVars, imageVars, unitVars>>
  /\ r \in ActiveRuns
  /\ runs[r].pc = "load"
  /\ UNCHANGED <<uploadedFiles, activeFileId, adds, nextId>>
  /\ LET run == runs[r]
         id == run.files[run.idx]
     IN \/ \* the document cannot be loaded: catch, finally, pdfInstance null
           LET failed == [run EXCEPT !.outcome[run.idx] =
                            [total |-> 0, failPage |-> 0, stage |-> "load",
                             message |-> LoadError]]
           IN Advance(r, failed, JobFinally(JobCatch(fileStates, id, LoadError), id))
        \/ LET total == PageCount(id)
           IN
             /\ fileStates' = JobLoaded(fileStates, id, total)
             /\ runs' = [runs EXCEPT ![r] =
                           [run EXCEPT !.pc = "render", !.total = total,
                                       !.pageNumber = 1, !.processed = <<>>,
                                       !.outcome[run.idx].total = total,
                                       !.rasterized = Append(@, <<run.idx, 1>>)]]
             /\ UNCHANGED isGlobalProcessing

\* catch and finally of a job that has a pdfInstance: the job is over and
\* the function is suspended in pdfInstance.destroy()
Fail(r, stage, msg) ==
  LET run == runs[r]
      id == run.files[run.idx]
  IN /\ fileStates' = JobFinally(JobCatch(fileStates, id, msg), id)
     /\ runs' = [runs EXCEPT ![r] =
                   [run EXCEPT !.pc = "destroy",
                               !.outcome[run.idx].failPage = run.pageNumber,
                               !.outcome[run.idx].stage = stage,
                               !.outcome[run.idx].message = msg]]
     /\ UNCHANGED isGlobalProcessing

\* await renderPdfPageToImage(pdfInstance, pageNumber, 1.75)
RenderDone(r) ==
  /\ UNCHANGED <<viewerVars, imageVars, unitVars>>
  /\ r \in ActiveRuns
  /\ runs[r].pc = "render"
  /\ UNCHANGED <<uploadedFiles, activeFileId, adds, nextId>>
  /\ \/ \* pageImage is passed to removeRedMarkings
        /\ runs' = [runs EXCEPT ![r].pc = "clean"]
        /\ UNCHANGED <<fileStates, isGlobalProcessing>>
     \/ Fail(r, "render", RenderError)

\* await removeRedMarkings(pageImage) (tuning, then processImageRemoveRed,
\* which can reject) and the rest of the loop body
CleanDone(r) ==
  /\ UNCHANGED <<viewerVars, imageVars, unitVars>>
  /\ r \in ActiveRuns
  /\ runs[r].pc = "clean"
  /\ UNCHANGED <<uploadedFiles, activeFileId, adds, nextId>>
  /\ LET run == runs[r]
         id == run.files[run.idx]
         k == run.pageNumber
         processed == Append(run.processed, CleanImage(PageImage(id, k)))
         fs == JobProgress(fileStates, id, k, run.total)
     IN \/ IF NextPage(k) <= run.total
           THEN /\ fileStates' = fs
                /\ runs' = [runs EXCEPT ![r] =
                              [run EXCEPT !.pc = "render",
                                          !.pageNumber = NextPage(k),
                                          !.processed = processed,
                                          !.rasterized = Append(@, <<run.idx, NextPage(k)>>)]]
                /\ UNCHANGED isGlobalProcessing
           ELSE /\ fileStates' = JobFinally(JobPublish(fs, id, processed), id)
                /\ runs' = [runs EXCEPT ![r] =
                              [run EXCEPT !.pc = "destroy",
                                          !.pageNumber = NextPage(k),
                                          !.processed = processed]]
                /\ UNCHANGED isGlobalProcessing
        \/ \E msg \in InpaintErrors : Fail(r, "clean", ErrorOr(msg, k))

\* await pdfInstance.destroy(), then the loop of handleProcessAllFiles
DestroyDone(r) ==
  /\ UNCHANGED <<viewerVars, imageVars, unitVars>>
  /\ r \in ActiveRuns
  /\ runs[r].pc = "destroy"
  /\ UNCHANGED <<uploadedFiles, activeFileId, adds, nextId>>
  /\ Advance(r, runs[r], fileStates)

\* ------------------------------------------------------------------------
\* handleFilesAdded, handleSelectFile, handleRemoveFile, handleResetWorkspace
\* ------------------------------------------------------------------------

\* the File[] a drop or a file input can deliver
AddInputs ==
  UNION { [1..n -> {"application/pdf", "image/png"}] : n \in 0..MaxAddFiles }

\* files.filter((file) => file.type === 'application/pdf')
PdfFiles(files) == SelectSeq(files, LAMBDA t : t = "application/pdf")

Min(a, b) == IF a <= b THEN a ELSE b
Max(a, b) == IF a >= b THEN a ELSE b

RECURSIVE SumSeq(_)
SumSeq(s) == IF s = <<>> THEN 0 ELSE Head(s) + SumSeq(Tail(s))

\* pdfFiles.slice(0, remainingSlots)
LimitedPdfFiles(files) ==
  LET remainingSlots == Max(MAX_UPLOAD_FILES - Len(uploadedFiles), 0)
      pdfFiles == PdfFiles(files)
  IN SubSeq(pdfFiles, 1, Min(Len(pdfFiles), remainingSlots))

\* none of the early returns of handleFilesAdded is taken
AddProceeds(files) ==
  ~ \/ Len(files) = 0
    \/ isGlobalProcessing
    \/ Max(MAX_UPLOAD_FILES - Len(uploadedFiles), 0) = 0
    \/ Len(PdfFiles(files)) = 0

\* the part of handleFilesAdded before await Promise.all(...): adds holds the
\* number of files each suspended call is reading
FilesAddedCall(files) ==
  /\ UNCHANGED <<viewerVars, imageVars, unitVars>>
  /\ UNCHANGED <<uploadedFiles, activeFileId, fileStates, isGlobalProcessing,
                 runs, nextId>>
  /\ IF AddProceeds(files)
     THEN adds' = Append(adds, Len(LimitedPdfFiles(files)))
     ELSE UNCHANGED adds

\* at most maxCalls calls are suspended and at most maxIds ids are generated
AddsWithin(files, maxCalls, maxIds) ==
  AddProceeds(files) =>
    /\ Len(adds) < maxCalls
    /\ nextId + SumSeq(adds) + Len(LimitedPdfFiles(files)) <= maxIds

handleFilesAdded(files) ==
  /\ AddsWithin(files, MaxAdds, MaxIds)
  /\ FilesAddedCall(files)

RemoveAt(s, a) == SubSeq(s, 1, a - 1) \o SubSeq(s, a + 1, Len(s))

\* the rest of handleFilesAdded, after the files of call a were read
FilesRead(a) ==
  /\ UNCHANGED <<viewerVars, imageVars, hueVars, resolverVars, downloads>>
  /\ UNCHANGED <<localStorage, storedStates, hydrate, reloads>>
  /\ a \in 1..Len(adds)
  /\ adds' = RemoveAt(adds, a)
  /\ UNCHANGED <<isGlobalProcessing, runs>>
  /\ \/ \* readFileAsDataUrl rejected
        UNCHANGED <<uploadedFiles, activeFileId, fileStates, nextId, storedData>>
     \/ LET newEntries == [i \in 1..adds[a] |-> nextId + i]
        IN /\ nextId' = nextId + adds[a]
           /\ uploadedFiles' = uploadedFiles \o newEntries
           /\ fileStates' = [x \in (DOMAIN fileStates) \cup
                                   { newEntries[i] : i \in 1..Len(newEntries) } |->
                               IF \E i \in 1..Len(newEntries) : newEntries[i] = x
                               THEN createInitialFileState ELSE fileStates[x]]
           /\ activeFileId' = IF activeFileId # 0 THEN activeFileId
                              ELSE newEntries[1]
           \* await Promise.all(newEntries.map((f) => saveFileData(f.id, f.dataUrl)))
           /\ storedData' = storedData \cup { newEntries[i] : i \in 1..Len(newEntries) }

handleSelectFile(id) ==
  /\ UNCHANGED <<viewerVars, imageVars, unitVars>>
  /\ id \in FileIds
  /\ activeFileId' = id
  /\ UNCHANGED <<uploadedFiles, fileStates, isGlobalProcessing, runs, adds,
                 nextId>>

handleRemoveFile(id) ==
  /\ UNCHANGED <<viewerVars, imageVars, hueVars, resolverVars, downloads>>
  /\ UNCHANGED <<localStorage, hydrate, reloads>>
  /\ id \in FileIds
  /\ UNCHANGED <<isGlobalProcessing, runs, adds, nextId>>
  /\ IF isGlobalProcessing
     THEN UNCHANGED <<uploadedFiles, activeFileId, fileStates, storedData, storedStates>>
     ELSE LET next == SelectSeq(uploadedFiles, LAMBDA f : f # id)
          IN /\ uploadedFiles' = next
             /\ activeFileId' = IF activeFileId = id
                                THEN (IF Len(next) > 0 THEN next[1] ELSE 0)
                                ELSE activeFileId
             /\ fileStates' = [x \in (DOMAIN fileStates) \ {id} |-> fileStates[x]]
             \* deleteFileData(id); deleteFileState(id)
             /\ storedData' = storedData \ {id}
             /\ storedStates' = [x \in (DOMAIN storedStates) \ {id} |-> storedStates[x]]

handleResetWorkspace ==
  /\ UNCHANGED <<viewerVars, imageVars, hueVars, resolverVars, downloads>>
  /\ UNCHANGED <<hydrate, reloads>>
  /\ UNCHANGED <<isGlobalProcessing, runs, adds, nextId>>
  /\ IF anyFileProcessing
     THEN UNCHANGED <<uploadedFiles, activeFileId, fileStates, localStorage,
                      storedData, storedStates>>
     ELSE /\ uploadedFiles' = <<>>
          /\ fileStates' = <<>>
          /\ activeFileId' = 0
          \* window.localStorage.removeItem(STORAGE_KEY); clearAllStorage()
          /\ localStorage' = NoPayload
          /\ storedData' = {}
          /\ storedStates' = <<>>

\* ------------------------------------------------------------------------
\* The batch orchestrator as a state machine
\* ------------------------------------------------------------------------
\* sMin and vMin are held in hundredths
DEFAULT_TUNING ==
  [sMin |-> 35, vMin |-> 25, hueA |-> <<0, 25>>, hueB |-> <<330, 360>>,
   dilateRadius |-> 1, inpaintRadius |-> 2]

\* no call of removeRedMarkings is in progress
ImageIdle ==
  /\ imgWidth = 0
  /\ imgHeight = 0
  /\ imgData = <<>>
  /\ imgTuning = DEFAULT_TUNING
  /\ imgMask = <<>>
  /\ imgDilated = <<>>
  /\ imgOut = <<>>
  /\ imgStage = "idle"
  /\ imgError = ""

\* no call of inHueRange is in progress
HueIdle ==
  /\ hueArgs = <<0, 0, 0>>
  /\ huePc = "idle"
  /\ hueMember = FALSE

\* a value of a JSON document: a number n, a string that is not numeric,
\* null, an array of such values, or the absence of the key
Num(n) == [kind |-> "num", n |-> n, items |-> <<>>]
Str == [kind |-> "str", n |-> 0, items |-> <<>>]
Null == [kind |-> "null", n |-> 0, items |-> <<>>]
Absent == [kind |-> "absent", n |-> 0, items |-> <<>>]
Arr(items) == [kind |-> "arr", n |-> 0, items |-> items]

\* {}
EmptyObject ==
  [sMin |-> Absent, vMin |-> Absent, hueA |-> Absent, hueB |-> Absent,
   dilateRadius |-> Absent, inpaintRadius |-> Absent]

\* a JavaScript number: NaN, or the finite value n
NaN == [nan |-> TRUE, n |-> 0]
Finite(n) == [nan |-> FALSE, n |-> n]

\* DEFAULT_TUNING as the object of numbers the resolver returns
DefaultProfile ==
  [sMin |-> Finite(DEFAULT_TUNING.sMin), vMin |-> Finite(DEFAULT_TUNING.vMin),
   hueA |-> <<Finite(DEFAULT_TUNING.hueA[1]), Finite(DEFAULT_TUNING.hueA[2])>>,
   hueB |-> <<Finite(DEFAULT_TUNING.hueB[1]), Finite(DEFAULT_TUNING.hueB[2])>>,
   dilateRadius |-> Finite(DEFAULT_TUNING.dilateRadius),
   inpaintRadius |-> Finite(DEFAULT_TUNING.inpaintRadius)]

\* no call of getTuningFromGemini is in progress
ResolverIdle ==
  /\ genAI = FALSE
  /\ base64Data = FALSE
  /\ queryThrew = FALSE
  /\ responseText = <<>>
  /\ parsed = EmptyObject
  /\ resolverPc = "idle"
  /\ tuningResult = DefaultProfile

UnitsIdle == HueIdle /\ ResolverIdle

\* no viewer is mounted while no file is uploaded
ViewerUnmounted ==
  /\ file = 0
  /\ pdfRef = 0
  /\ destroyed = {}
  /\ renderTask = 0
  /\ cancelledTasks = {}
  /\ renderCache = <<>>
  /\ renderToken = 0
  /\ numPages = 0
  /\ pageNumber = 1
  /\ isLoading = FALSE
  /\ error = ""
  /\ pagePreview = NoImage
  /\ loads = <<>>
  /\ renders = <<>>
  /\ docLoads = <<>>
  /\ images = <<>>
  /\ imageOfFile = [f \in {1, 2} |-> NoImage]
  /\ fileGen = 0

\* a first visit: nothing is stored, so the hydration effect has set
\* hasHydratedRef at once
NothingStored ==
  /\ localStorage = NoPayload
  /\ storedData = {}
  /\ storedStates = <<>>
  /\ hydrate = [pc |-> "done", raw |-> NoPayload]
  /\ reloads = 0
  /\ downloads = <<>>

BatchInit ==
  /\ uploadedFiles = <<>>
  /\ activeFileId = 0
  /\ fileStates = <<>>
  /\ isGlobalProcessing = FALSE
  /\ runs = <<>>
  /\ adds = <<>>
  /\ nextId = 0
  /\ NothingStored

Init == BatchInit /\ ViewerUnmounted /\ ImageIdle /\ UnitsIdle

Next ==
  \/ \E files \in AddInputs : handleFilesAdded(files)
  \/ \E a \in 1..MaxAdds : FilesRead(a)
  \/ \E id \in 1..MaxIds : handleSelectFile(id)
  \/ \E id \in 1..MaxIds : handleRemoveFile(id)
  \/ handleResetWorkspace
  \/ handleProcessAllFiles
  \/ \E r \in 1..MaxRuns : LoadDone(r)
  \/ \E r \in 1..MaxRuns : RenderDone(r)
  \/ \E r \in 1..MaxRuns : CleanDone(r)
  \/ \E r \in 1..MaxRuns : DestroyDone(r)

Spec == Init /\ [][Next]_vars

\* ------------------------------------------------------------------------
\* Properties of the batch orchestrator
\* ------------------------------------------------------------------------

\* the pages of job i of a run whose rasterization has begun, in order
RasterizedOf(run, i) ==
  LET own == SelectSeq(run.rasterized, LAMBDA e : e[1] = i)
  IN [j \in 1..Len(own) |-> own[j][2]]

\* the reconstructed rasters of pages 1..n of file id
CleanPages(id, n) == [p \in 1..n |-> CleanImage(PageImage(id, p))]

\* job i of the active run has reached its terminal state and nothing but
\* the run itself can have written its file state since
JobOver(run, i) ==
  \/ i < run.idx
  \/ i = run.idx /\ run.pc = "destroy"

Range(s) == { s[j] : j \in 1..Len(s) }

\* C1: when a document job fails on page k, the reconstructed rasters of
\* pages 1..k-1 are in the job's recorded results (page 2 fails to
\* rasterize: page 1 recorded, error recorded, no later page attempted, job
\* no longer processing).
C1_PriorPagesKept ==
  \A r \in ActiveRuns :
    LET run == runs[r]
        id == run.files[run.idx]
        k == run.outcome[run.idx].failPage
    IN (run.pc = "destroy" /\ k >= 1) =>
         /\ fileStates[id].processedPages = CleanPages(id, k - 1)
         /\ fileStates[id].error = run.outcome[run.idx].message
         /\ ~fileStates[id].isBatchProcessing
         /\ \A p \in Range(RasterizedOf(run, run.idx)) : p <= k

\* C2: if a stage fails for page k of a job, no page after k is rasterized
\* in that job, the job is no longer processing, its document-level error
\* is the message raised for page k, and no raster of page k is recorded.
C2_FailureStopsJob ==
  \A r \in ActiveRuns :
    LET run == runs[r]
    IN \A i \in run.started :
         LET id == run.files[i]
             k == run.outcome[i].failPage
         IN (JobFailed(run, i) /\ JobOver(run, i)) =>
              /\ \A p \in Range(RasterizedOf(run, i)) : p <= k
              /\ ~fileStates[id].isBatchProcessing
              /\ fileStates[id].error = run.outcome[i].message
              /\ fileStates[id].error # ""
              /\ \A img \in Range(fileStates[id].processedPages)
                            \cup {fileStates[id].processedImageData} :
                   img # NoImage => img[3] # k

C2_Witness ==
  \E r \in ActiveRuns :
    /\ runs[r].pc = "destroy"
    /\ runs[r].outcome[runs[r].idx].failPage = 2
    /\ runs[r].outcome[runs[r].idx].stage = "clean"
    /\ runs[r].total = 2

\* C3: a failed job neither halts the run nor fails a later document: the
\* run returns only from its last document, every document before the
\* current one was started, and a started document whose load and pages all
\* succeed ends with all its pages reconstructed, no error and not
\* processing, whatever happened to the documents before it.
C3_Inv ==
  \A r \in ActiveRuns :
    LET run == runs[r]
    IN /\ run.started = 1..run.idx
       /\ \A i \in run.started :
            LET id == run.files[i]
            IN (~JobFailed(run, i) /\ JobOver(run, i)) =>
                 /\ fileStates[id].processedPages =
                      CleanPages(id, run.outcome[i].total)
                 /\ run.outcome[i].total >= 1
                 /\ fileStates[id].error = ""
                 /\ ~fileStates[id].isBatchProcessing

C3_ReturnsFromLast ==
  \A r \in ActiveRuns :
    (r \in DOMAIN runs' /\ runs'[r].pc = "done") =>
       runs[r].idx = Len(runs[r].files)

C3_FailureIsolated == []C3_Inv /\ [][C3_ReturnsFromLast]_vars

C3_Witness ==
  \E r \in ActiveRuns :
    /\ runs[r].idx = 2
    /\ runs[r].pc = "destroy"
    /\ JobFailed(runs[r], 1)
    /\ ~JobFailed(runs[r], 2)
    /\ Len(fileStates[runs[r].files[2]].processedPages) = 2

\* C4: at most one batch run is active; the running flag is set exactly
\* while one is; invoking 'process all' while the flag is set starts no run
\* and changes no document job's state.
C4_Inv ==
  /\ Cardinality(ActiveRuns) <= 1
  /\ isGlobalProcessing <=> ActiveRuns # {}

C4_SingleBatch ==
  /\ []C4_Inv
  /\ [][(isGlobalProcessing /\ handleProcessAllFiles)
          => UNCHANGED <<fileStates, runs>>]_vars

C4_Witness ==
  /\ isGlobalProcessing
  /\ Len(runs) = 2
  /\ runs[1].pc = "done"
  /\ runs[2].pc = "clean"
  /\ Len(runs[2].files) = 2

\* C5: at every instant at most one document is marked processing: while a
\* job of the run is in flight it is that job's document, and between the
\* end of a job and the start of the next one it is none.
C5_OneJobProcessing ==
  LET processing == { id \in DOMAIN fileStates : fileStates[id].isBatchProcessing }
  IN /\ Cardinality(processing) <= 1
     /\ \A r \in ActiveRuns :
          IF runs[r].pc = "destroy"
          THEN processing = {}
          ELSE processing = {runs[r].files[runs[r].idx]}
     /\ ActiveRuns = {} => processing = {}

C5_Witness ==
  \E r \in ActiveRuns :
    /\ runs[r].idx = 2
    /\ runs[r].pc = "render"
    /\ fileStates[runs[r].files[2]].isBatchProcessing
    /\ ~fileStates[runs[r].files[1]].isBatchProcessing

\* C6: within a job the pages are rasterized in the order 1, 2, ..., and
\* while page k is being rasterized or processed the outcome of every page
\* before it is recorded: k-1 rasters appended and the progress counter at
\* k-1 of total; a job that ends without a failure has rasterized every page.
C6_PagesInOrder ==
  \A r \in ActiveRuns :
    LET run == runs[r]
        id == run.files[run.idx]
        k == run.pageNumber
    IN /\ \A i \in run.started :
            \E n \in 0..MaxPages : RasterizedOf(run, i) = [p \in 1..n |-> p]
       /\ \A i \in run.started :
            (JobOver(run, i) /\ ~JobFailed(run, i)) =>
              RasterizedOf(run, i) = [p \in 1..run.outcome[i].total |-> p]
       /\ run.pc \in {"render", "clean"} =>
            /\ k \in 1..run.total
            /\ RasterizedOf(run, run.idx) = [p \in 1..k |-> p]
            /\ run.processed = CleanPages(id, k - 1)
            /\ fileStates[id].batchProgress = [current |-> k - 1, total |-> run.total]

C6_Witness ==
  \E r \in ActiveRuns :
    /\ runs[r].pc = "render"
    /\ runs[r].pageNumber = 2
    /\ fileStates[runs[r].files[runs[r].idx]].batchProgress.current = 1

\* ------------------------------------------------------------------------
\* PDFViewer: the load effect, the cache-clear effect, the render effect
\* ------------------------------------------------------------------------

\* the documents the parent can pass as the file prop, and their page counts
ViewerFiles == {1, 2}
PagesOf(f) == IF f = 1 THEN 2 ELSE 1

NoEntry == [dataUrl |-> NoImage, gen |-> 0]
EmptyCache == <<>>

\* handlePDFToImage of the parent, whose active file is the file prop:
\* if (!activeFile) return; updateFileState(activeFile.id, currentImageData)
handlePDFToImage(current, active, imageData) ==
  IF active = 0 THEN current ELSE [current EXCEPT ![active] = imageData]

\* the document a handle was loaded from
FileOfPdf(pdf) == loads[pdf].file

\* canvas.toDataURL after page pn of the handle pdf was drawn
ViewerImage(pdf, pn) == <<"page", FileOfPdf(pdf), pn>>

\* useEffect(() => { renderCacheRef.current.clear() }, [file])
ClearOnFileChangeKeep(cache) == cache

ClearOnFileChange(cache) == EmptyCache

\* if (token !== renderTokenRef.current) return, after await task.promise
IsCurrentAlways(token, current) == TRUE

IsCurrent(token, current) == token = current

\* the synchronous part of render(), run by the render effect after a commit
\* that changed one of its dependencies [isLoading, numPages, pageNumber];
\* the arguments are the committed values
RenderEffect(isL, nP, pN, pdf, cache, f) ==
  IF \/ <<isL, nP, pN>> = <<isLoading, numPages, pageNumber>>
     \/ isL
     \/ pdf = 0
     \/ f = 0                       \* canvasRef.current is null
     \/ pN < 1
     \/ pN > (IF nP = 0 THEN 1 ELSE nP)
  THEN UNCHANGED <<renderToken, renders, cancelledTasks>>
  ELSE /\ renderToken < MaxRenders
       /\ renderToken' = renderToken + 1
       /\ cancelledTasks' =
            IF renderTask # 0 /\ renders[renderTask].pc = "rendering"
            THEN cancelledTasks \cup {renderTask} ELSE cancelledTasks
       /\ renders' = Append(renders,
            IF pN \in DOMAIN cache
            THEN [pc |-> "replay", page |-> pN, pdf |-> pdf,
                  entry |-> cache[pN], gen |-> fileGen, result |-> ""]
            ELSE [pc |-> "getPage", page |-> pN, pdf |-> pdf,
                  entry |-> NoEntry, gen |-> fileGen, result |-> ""])

\* the file prop changes to f: cleanup of the previous load effect, the
\* synchronous part of load(), the cache-clear effect
ViewerFileChange(f) ==
  /\ f \in ViewerFiles \cup {0}
  /\ f # file
  /\ fileGen < MaxFileChanges
  /\ fileGen' = fileGen + 1
  /\ file' = f
  /\ renderCache' = ClearOnFileChange(renderCache)
  /\ error' = ""
  /\ pagePreview' = NoImage
  /\ LET stale == [l \in 1..Len(loads) |-> [loads[l] EXCEPT !.cancelled = TRUE]]
     IN IF f = 0
        THEN /\ loads' = stale
             /\ numPages' = 0
             /\ pageNumber' = 1
             /\ docLoads' = Append(docLoads, 0)
             /\ UNCHANGED isLoading
             /\ UNCHANGED <<renderToken, renders, cancelledTasks>>
        ELSE /\ loads' = Append(stale, [file |-> f, cancelled |-> FALSE, pc |-> "loading"])
             /\ isLoading' = TRUE
             /\ UNCHANGED <<numPages, pageNumber, docLoads>>
             /\ UNCHANGED <<renderToken, renders, cancelledTasks>>
  /\ UNCHANGED <<pdfRef, destroyed, renderTask, images, imageOfFile>>
  /\ UNCHANGED <<batchVars, imageVars, unitVars>>

\* the end of the try block of load() and its finally
LoadCommit(l) ==
  /\ pdfRef' = l
  /\ renderCache' = EmptyCache
  /\ numPages' = PagesOf(loads[l].file)
  /\ pageNumber' = 1
  /\ docLoads' = Append(docLoads, PagesOf(loads[l].file))
  /\ isLoading' = FALSE
  /\ loads' = [loads EXCEPT ![l].pc = "done"]
  /\ RenderEffect(FALSE, PagesOf(loads[l].file), 1, l, EmptyCache, file)
  /\ UNCHANGED <<error, pagePreview>>

\* await file.arrayBuffer(); await loadingTask.promise
LoadSettled(l) ==
  /\ l \in 1..Len(loads)
  /\ loads[l].pc = "loading"
  /\ UNCHANGED <<file, renderTask, images, imageOfFile, fileGen>>
  /\ UNCHANGED <<batchVars, imageVars, unitVars>>
  /\ \/ \* rejected: catch and finally
        /\ error' = LoadError
        /\ numPages' = 0
        /\ pagePreview' = NoImage
        /\ docLoads' = Append(docLoads, 0)
        /\ isLoading' = FALSE
        /\ loads' = [loads EXCEPT ![l].pc = "done"]
        /\ RenderEffect(FALSE, 0, pageNumber, pdfRef, renderCache, file)
        /\ UNCHANGED <<pdfRef, destroyed, renderCache, pageNumber>>
     \/ \* resolved with the handle l
        IF loads[l].cancelled
        THEN /\ loads' = [loads EXCEPT ![l].pc = "destroyOwn"]
             /\ destroyed' = destroyed \cup {l}
             /\ UNCHANGED <<pdfRef, renderCache, renderToken, numPages,
                            pageNumber, isLoading, error, pagePreview, renders,
                            cancelledTasks, docLoads>>
        ELSE IF pdfRef # 0
        THEN /\ loads' = [loads EXCEPT ![l].pc = "destroyOld"]
             /\ destroyed' = destroyed \cup {pdfRef}
             /\ UNCHANGED <<pdfRef, renderCache, renderToken, numPages,
                            pageNumber, isLoading, error, pagePreview, renders,
                            cancelledTasks, docLoads>>
        ELSE /\ LoadCommit(l)
             /\ UNCHANGED destroyed

\* await pdf.destroy() of a cancelled load, or await pdfRef.current.destroy()
LoadDestroyed(l) ==
  /\ l \in 1..Len(loads)
  /\ loads[l].pc \in {"destroyOwn", "destroyOld"}
  /\ UNCHANGED <<file, destroyed, renderTask, images, imageOfFile, fileGen>>
  /\ UNCHANGED <<batchVars, imageVars, unitVars>>
  /\ IF loads[l].pc = "destroyOwn"
     THEN \* return inside try: the finally block still runs
          /\ isLoading' = FALSE
          /\ loads' = [loads EXCEPT ![l].pc = "done"]
          /\ RenderEffect(FALSE, numPages, pageNumber, pdfRef, renderCache, file)
          /\ UNCHANGED <<pdfRef, renderCache, numPages, pageNumber, error,
                         pagePreview, docLoads>>
     ELSE LoadCommit(l)

\* await pdfRef.current.getPage(pageNumber)
GetPageDone(t) ==
  /\ t \in 1..Len(renders)
  /\ renders[t].pc = "getPage"
  /\ UNCHANGED <<file, pdfRef, destroyed, renderCache, renderToken, numPages,
                 pageNumber, isLoading, pagePreview, loads, docLoads, images,
                 imageOfFile,
                 fileGen, cancelledTasks>>
  /\ UNCHANGED <<batchVars, imageVars, unitVars>>
  /\ IF renders[t].pdf \in destroyed
     THEN \* rejected: render().catch
          /\ error' = "Transport destroyed"
          /\ renders' = [renders EXCEPT ![t].pc = "done", ![t].result = "rejected"]
          /\ UNCHANGED renderTask
     ELSE \* the canvas is resized and cleared, page.render starts
          /\ renderTask' = t
          /\ renders' = [renders EXCEPT ![t].pc = "rendering"]
          /\ UNCHANGED error

\* await task.promise and the rest of render()
RenderTaskDone(t) ==
  /\ t \in 1..Len(renders)
  /\ renders[t].pc = "rendering"
  /\ UNCHANGED <<file, pdfRef, destroyed, renderTask, renderToken, numPages,
                 pageNumber, isLoading, loads, docLoads, fileGen,
                 cancelledTasks>>
  /\ UNCHANGED <<batchVars, imageVars, unitVars>>
  /\ \/ \* rejected: the task was cancelled or its document destroyed
        /\ t \in cancelledTasks \/ renders[t].pdf \in destroyed
        /\ error' = IF t \in cancelledTasks THEN "Rendering cancelled"
                    ELSE "Transport destroyed"
        /\ renders' = [renders EXCEPT ![t].pc = "done", ![t].result = "rejected"]
        /\ UNCHANGED <<renderCache, pagePreview, images, imageOfFile>>
     \/ \* resolved
        /\ t \notin cancelledTasks
        /\ IF IsCurrent(t, renderToken)
           THEN LET imageData == ViewerImage(renders[t].pdf, renders[t].page)
                IN /\ renderCache' =
                        [x \in (DOMAIN renderCache) \cup {renders[t].page} |->
                           IF x = renders[t].page
                           THEN [dataUrl |-> imageData, gen |-> fileGen]
                           ELSE renderCache[x]]
                   /\ pagePreview' = imageData
                   /\ images' = Append(images, imageData)
                   /\ imageOfFile' = handlePDFToImage(imageOfFile, file, imageData)
                   /\ renders' = [renders EXCEPT ![t].pc = "done",
                                                 ![t].result = "committed"]
           ELSE /\ renders' = [renders EXCEPT ![t].pc = "done",
                                              ![t].result = "discarded"]
                /\ UNCHANGED <<renderCache, pagePreview, images, imageOfFile>>
        /\ UNCHANGED error

\* await drawCachedPage(canvas, cached, token, renderTokenRef) and the rest
\* of the cached branch of render()
ReplayDone(t) ==
  /\ t \in 1..Len(renders)
  /\ renders[t].pc = "replay"
  /\ UNCHANGED <<file, pdfRef, destroyed, renderTask, renderCache, renderToken,
                 numPages, pageNumber, isLoading, error, loads, docLoads,
                 fileGen, cancelledTasks>>
  /\ UNCHANGED <<batchVars, imageVars, unitVars>>
  /\ IF t = renderToken
     THEN /\ pagePreview' = renders[t].entry.dataUrl
          /\ images' = Append(images, renders[t].entry.dataUrl)
          /\ imageOfFile' = handlePDFToImage(imageOfFile, file, renders[t].entry.dataUrl)
          /\ renders' = [renders EXCEPT ![t].pc = "done", ![t].result = "committed"]
     ELSE /\ renders' = [renders EXCEPT ![t].pc = "done", ![t].result = "discarded"]
          /\ UNCHANGED <<pagePreview, images, imageOfFile>>

handleNextPage ==
  /\ file # 0
  /\ numPages > 0
  /\ pageNumber < numPages          \* the button is disabled otherwise
  /\ pageNumber' = Min(pageNumber + 1, numPages)
  /\ RenderEffect(isLoading, numPages, pageNumber', pdfRef, renderCache, file)
  /\ UNCHANGED <<file, pdfRef, destroyed, renderTask, renderCache, numPages,
                 isLoading, error, pagePreview, loads, docLoads, images,
                 imageOfFile, fileGen>>
  /\ UNCHANGED <<batchVars, imageVars, unitVars>>

handlePreviousPage ==
  /\ file # 0
  /\ numPages > 0
  /\ pageNumber > 1                 \* the button is disabled otherwise
  /\ pageNumber' = Max(pageNumber - 1, 1)
  /\ RenderEffect(isLoading, numPages, pageNumber', pdfRef, renderCache, file)
  /\ UNCHANGED <<file, pdfRef, destroyed, renderTask, renderCache, numPages,
                 isLoading, error, pagePreview, loads, docLoads, images,
                 imageOfFile, fileGen>>
  /\ UNCHANGED <<batchVars, imageVars, unitVars>>

\* the viewer just mounted with a document: load() is suspended in the load
\* of that document, the render effect has returned at once
ViewerMounted ==
  /\ file \in ViewerFiles
  /\ pdfRef = 0
  /\ destroyed = {}
  /\ renderTask = 0
  /\ cancelledTasks = {}
  /\ renderCache = EmptyCache
  /\ renderToken = 0
  /\ numPages = 0
  /\ pageNumber = 1
  /\ isLoading = TRUE
  /\ error = ""
  /\ pagePreview = NoImage
  /\ loads = <<[file |-> file, cancelled |-> FALSE, pc |-> "loading"]>>
  /\ renders = <<>>
  /\ docLoads = <<>>
  /\ images = <<>>
  /\ imageOfFile = [f \in ViewerFiles |-> NoImage]
  /\ fileGen = 0

ViewerInit == BatchInit /\ ViewerMounted /\ ImageIdle /\ UnitsIdle

ViewerNext ==
  \/ \E f \in ViewerFiles \cup {0} : ViewerFileChange(f)
  \/ \E l \in 1..(MaxFileChanges + 1) : LoadSettled(l)
  \/ \E l \in 1..(MaxFileChanges + 1) : LoadDestroyed(l)
  \/ \E t \in 1..MaxRenders : GetPageDone(t)
  \/ \E t \in 1..MaxRenders : RenderTaskDone(t)
  \/ \E t \in 1..MaxRenders : ReplayDone(t)
  \/ handleNextPage
  \/ handlePreviousPage

SpecViewer == ViewerInit /\ [][ViewerNext]_vars

\* ------------------------------------------------------------------------
\* Properties of the viewer
\* ------------------------------------------------------------------------

\* C7: a step of a load that a newer change of the file has superseded
\* changes none of the document handle, the render cache, the page count,
\* the page number, the loading flag and the error, and reports no page
\* count to the parent.
C7_StaleLoadSilent ==
  [][\A l \in 1..Len(loads) :
       (loads[l].cancelled /\ loads'[l].pc # loads[l].pc) =>
         /\ UNCHANGED <<pdfRef, renderCache, numPages, pageNumber, isLoading, error>>
         /\ docLoads' = docLoads]_vars

C8_Step ==
  /\ renderToken' >= renderToken
  /\ \A t \in 1..Len(renders) :
       (/\ renders[t].pc \in {"rendering", "replay"}
        /\ renders'[t].pc = "done"
        /\ t # renderToken)
       => UNCHANGED <<renderCache, pagePreview, images>>

C9_NoOldReplay ==
  \A t \in 1..Len(renders) :
    renders[t].entry # NoEntry => renders[t].entry.gen >= renders[t].gen

C9_ClearedOnChange == fileGen' # fileGen => renderCache' = EmptyCache

\* C9: every change of the file empties the render cache, and no render
\* requested after a change replays an entry cached before it.
C9_CacheCleared == []C9_NoOldReplay /\ [][C9_ClearedOnChange]_vars

C9_Witness ==
  \E t, u \in 1..Len(renders) :
    /\ renders[t].gen = 0
    /\ renders[t].result = "committed"
    /\ renders[u].gen >= 1
    /\ renders[u].page = renders[t].page
    /\ renders[u].entry = NoEntry

\* ------------------------------------------------------------------------
\* geminiService: removeRedMarkings and processImageRemoveRed
\* ------------------------------------------------------------------------

\* A pixel is <<r, g, b, a>> with channels in 0..255; a buffer holds the
\* pixels row by row, pixel (x, y) at index y * width + x + 1.
Palette ==
  { <<255, 255, 255, 255>>,      \* white paper
    <<255, 0, 0, 255>>,          \* red ink
    <<0, 0, 0, 255>>,            \* black text
    <<200, 30, 30, 255>>,        \* dark red ink
    <<100, 101, 103, 128>>,      \* translucent grey
    <<255, 0, 0, 5>> }           \* red below the alpha threshold

Shapes == {wh \in (1..MaxPixels) \X (1..MaxPixels) : wh[1] * wh[2] <= MaxPixels}

\* what getTuningFromGemini can return: the default, or a parsed answer
\* whose fields went through clamp01, normalizeHueRange and clampInt
Tunings ==
  { DEFAULT_TUNING,
    [DEFAULT_TUNING EXCEPT !.dilateRadius = 0, !.inpaintRadius = 1],
    [DEFAULT_TUNING EXCEPT !.hueB = <<330, 0>>, !.inpaintRadius = 1],
    [DEFAULT_TUNING EXCEPT !.sMin = 0, !.vMin = 0, !.hueA = <<0, 0>>,
                           !.hueB = <<350, 10>>, !.dilateRadius = 2] }

XOf(p, width) == (p - 1) % width
YOf(p, width) == (p - 1) \div width
PixelAt(x, y, width) == y * width + x + 1

Max3(r, g, b) == Max(r, Max(g, b))
Min3(r, g, b) == Min(r, Min(g, b))

\* rgbToHsv on the channels r/255, g/255, b/255, kept exact: h, s and v are
\* fractions <<numerator, denominator>> with a positive denominator
rgbToHsvNoWrap(r, g, b) ==
  LET max == Max3(r, g, b)
      min == Min3(r, g, b)
      delta == max - min
      hNum == IF delta = 0 THEN 0
              ELSE IF max = r THEN 60 * (g - b)
              ELSE IF max = g THEN 60 * (b - r) + 120 * delta
              ELSE 60 * (r - g) + 240 * delta
  IN [h |-> <<hNum, IF delta = 0 THEN 1 ELSE delta>>,
      s |-> IF max = 0 THEN <<0, 1>> ELSE <<delta, max>>,
      v |-> <<max, 255>>]

rgbToHsv(r, g, b) ==
  LET max == Max3(r, g, b)
      min == Min3(r, g, b)
      delta == max - min
      hNum == IF delta = 0 THEN 0
              ELSE IF max = r
                   THEN IF g - b < 0 THEN 60 * (g - b) + 360 * delta
                        ELSE 60 * (g - b)
              ELSE IF max = g THEN 60 * (b - r) + 120 * delta
              ELSE 60 * (r - g) + 240 * delta
  IN [h |-> <<hNum, IF delta = 0 THEN 1 ELSE delta>>,
      s |-> IF max = 0 THEN <<0, 1>> ELSE <<delta, max>>,
      v |-> <<max, 255>>]

\* h >= a and h <= a for a fraction h and an integer a
FracGeq(h, a) == h[1] >= a * h[2]
FracLeq(h, a) == h[1] <= a * h[2]
\* s < m / 100 for a fraction s and a threshold m in hundredths
FracBelowPct(s, m) == s[1] * 100 < m * s[2]

inHueRange(h, a, b) ==
  IF a <= b THEN FracGeq(h, a) /\ FracLeq(h, b)
  ELSE FracGeq(h, a) \/ FracLeq(h, b)

\* the body of the mask loop for one pixel
IsRed(px, tuning) ==
  LET hsv == rgbToHsv(px[1], px[2], px[3])
  IN /\ ~(px[4] < 10)
     /\ ~(FracBelowPct(hsv.s, tuning.sMin) \/ FracBelowPct(hsv.v, tuning.vMin))
     /\ \/ inHueRange(hsv.h, tuning.hueA[1], tuning.hueA[2])
        \/ inHueRange(hsv.h, tuning.hueB[1], tuning.hueB[2])

DetectMask(data, tuning) == [p \in 1..Len(data) |-> IsRed(data[p], tuning)]

\* the in-bounds pixels (x + dx, y + dy) with dx, dy in -radius..radius: a
\* square, not the diamond of the pixels with |dx| + |dy| <= radius
Diamond(p, width, height, radius) ==
  { q \in 1..(width * height) :
      LET dx == XOf(q, width) - XOf(p, width)
          dy == YOf(q, width) - YOf(p, width)
      IN (IF dx < 0 THEN -dx ELSE dx) + (IF dy < 0 THEN -dy ELSE dy) <= radius }

Square(p, width, height, radius) ==
  { PixelAt(XOf(p, width) + d[1], YOf(p, width) + d[2], width) :
      d \in { e \in (-radius..radius) \X (-radius..radius) :
                /\ XOf(p, width) + e[1] >= 0
                /\ YOf(p, width) + e[2] >= 0
                /\ XOf(p, width) + e[1] < width
                /\ YOf(p, width) + e[2] < height } }

RECURSIVE DilateLoop(_, _, _, _, _, _)
DilateLoop(out, mask, width, height, radius, p) ==
  IF p > Len(mask) THEN out
  ELSE DilateLoop(
         IF mask[p]
         THEN [q \in 1..Len(out) |->
                 IF q \in Square(p, width, height, radius) THEN TRUE ELSE out[q]]
         ELSE out,
         mask, width, height, radius, p + 1)

dilateMaskSkipped(mask, width, height, radius) == mask

dilateMask(mask, width, height, radius) ==
  IF radius <= 0 THEN mask
  ELSE DilateLoop(mask, mask, width, height, radius, 1)

RECURSIVE SumChannel(_, _, _)
SumChannel(out, pixels, c) ==
  IF pixels = {} THEN 0
  ELSE LET q == CHOOSE x \in pixels : TRUE
       IN out[q][c] + SumChannel(out, pixels \ {q}, c)

\* if (!dilated[y * width + x]) continue
ReconstructsAll(dilated, p) == TRUE

Reconstructs(dilated, p) == dilated[p]

\* if (dilated[ny * width + nx]) continue
NeighbourSkippedNever(dilated, q) == FALSE

NeighbourSkipped(dilated, q) == dilated[q]

\* Math.round(sumR / count)
RoundDivFloor(sum, count) == sum \div count

RoundDiv(sum, count) == (2 * sum + count) \div (2 * count)

\* the body of the inpaint loop for the masked pixel p: the sums are read
\* from out, the buffer as written so far
InpaintPixel(out, dilated, width, height, radius, p) ==
  LET near == {q \in Square(p, width, height, radius) : ~NeighbourSkipped(dilated, q)}
      count == Cardinality(near)
  IN IF count > 0
     THEN <<RoundDiv(SumChannel(out, near, 1), count),
            RoundDiv(SumChannel(out, near, 2), count),
            RoundDiv(SumChannel(out, near, 3), count),
            out[p][4]>>
     ELSE <<255, 255, 255, out[p][4]>>

\* the inpaint loop from pixel p on; out is the buffer written so far
RECURSIVE InpaintLoop(_, _, _, _, _, _)
InpaintLoop(out, dilated, width, height, radius, p) ==
  IF p > Len(out) THEN out
  ELSE IF ~Reconstructs(dilated, p)
  THEN InpaintLoop(out, dilated, width, height, radius, p + 1)
  ELSE InpaintLoop([out EXCEPT ![p] = InpaintPixel(out, dilated, width, height, radius, p)],
                   dilated, width, height, radius, p + 1)

\* four-pixel pages in three inks: a strip and a block
Inks == { <<255, 255, 255, 255>>, <<255, 0, 0, 255>>, <<0, 0, 0, 255>> }

InkShapes == { <<4, 1>>, <<2, 2>> }

\* a 3x3 page, white but for a red pixel in the middle
WhiteWithRedCentre ==
  [p \in 1..9 |-> IF p = 5 THEN <<255, 0, 0, 255>> ELSE <<255, 255, 255, 255>>]

\* removeRedMarkings was called with a page image: the buffer is what
\* getImageData will return once the image is decoded
ImageCalled ==
  /\ \/ \E wh \in Shapes :
          /\ imgWidth = wh[1]
          /\ imgHeight = wh[2]
          /\ imgData \in [1..(wh[1] * wh[2]) -> Palette]
     \/ /\ imgWidth = 3
        /\ imgHeight = 3
        /\ imgData = WhiteWithRedCentre
     \/ \E wh \in InkShapes :
          /\ imgWidth = wh[1]
          /\ imgHeight = wh[2]
          /\ imgData \in [1..(wh[1] * wh[2]) -> Inks]
  /\ imgTuning = DEFAULT_TUNING
  /\ imgMask = <<>>
  /\ imgDilated = <<>>
  /\ imgOut = <<>>
  /\ imgStage = "tuning"
  /\ imgError = ""

\* await getTuningFromGemini(imageData)
TuningDone(t) ==
  /\ imgStage = "tuning"
  /\ t \in Tunings
  /\ imgTuning' = t
  /\ imgStage' = "decode"
  /\ UNCHANGED <<imgWidth, imgHeight, imgData, imgMask, imgDilated, imgOut, imgError>>
  /\ UNCHANGED <<batchVars, viewerVars, unitVars>>

\* img.onload of processImageRemoveRed
ImageOnLoad ==
  /\ imgStage = "decode"
  /\ \/ \* canvas.getContext('2d') returned null
        /\ imgError' = "Could not get canvas context"
        /\ UNCHANGED <<imgMask, imgDilated, imgOut>>
     \/ LET mask == DetectMask(imgData, imgTuning)
            dilated == dilateMask(mask, imgWidth, imgHeight, imgTuning.dilateRadius)
        IN /\ imgMask' = mask
           /\ imgDilated' = dilated
           /\ imgOut' = InpaintLoop(imgData, dilated, imgWidth, imgHeight,
                                    imgTuning.inpaintRadius, 1)
           /\ UNCHANGED imgError
  /\ imgStage' = "done"
  /\ UNCHANGED <<imgWidth, imgHeight, imgData, imgTuning>>
  /\ UNCHANGED <<batchVars, viewerVars, unitVars>>

\* img.onerror of processImageRemoveRed
ImageOnError ==
  /\ imgStage = "decode"
  /\ imgError' = "Failed to load image"
  /\ imgStage' = "done"
  /\ UNCHANGED <<imgWidth, imgHeight, imgData, imgTuning, imgMask, imgDilated, imgOut>>
  /\ UNCHANGED <<batchVars, viewerVars, unitVars>>

ImageInit == BatchInit /\ ViewerUnmounted /\ ImageCalled /\ UnitsIdle

ImageNext ==
  \/ \E t \in Tunings : TuningDone(t)
  \/ ImageOnLoad
  \/ ImageOnError

SpecImage == ImageInit /\ [][ImageNext]_vars

\* ------------------------------------------------------------------------
\* Properties of the image pipeline
\* ------------------------------------------------------------------------

Reconstructed == imgStage = "done" /\ imgError = ""

\* C10: after reconstruction every pixel outside the dilated mask has the
\* R, G, B and alpha it had in the input buffer.
C10_UnmaskedUnchanged ==
  Reconstructed =>
    \A p \in 1..Len(imgData) : ~imgDilated[p] => imgOut[p] = imgData[p]

C10_Witness ==
  /\ Reconstructed
  /\ \E p, q \in 1..Len(imgData) :
       /\ imgDilated[p]
       /\ imgOut[p] # imgData[p]
       /\ ~imgDilated[q]
       /\ imgData[q][4] # 255
       /\ q \in Square(p, imgWidth, imgHeight, imgTuning.inpaintRadius)

\* the unmasked in-bounds pixels within Chebyshev distance inpaintRadius of p
UnmaskedNear(p) ==
  {q \in Square(p, imgWidth, imgHeight, imgTuning.inpaintRadius) : ~imgDilated[q]}

\* C11: after reconstruction a masked pixel with no unmasked pixel within
\* inpaintRadius is white and fully opaque: <<255, 255, 255, 255>>.
C11_WhiteOpaqueFallback ==
  Reconstructed =>
    \A p \in 1..Len(imgData) :
      (imgDilated[p] /\ UnmaskedNear(p) = {}) => imgOut[p] = <<255, 255, 255, 255>>

\* ------------------------------------------------------------------------
\* dilateMask on its own
\* ------------------------------------------------------------------------

\* clampInt(..., 0, 3): the radii a tuning can carry
DilateRadii == 0..3

MaskShapes ==
  {wh \in (1..MaxMaskPixels) \X (1..MaxMaskPixels) : wh[1] * wh[2] <= MaxMaskPixels}

\* dilateMask(mask, width, height, radius) was called
DilateCalled ==
  /\ \E wh \in MaskShapes :
       /\ imgWidth = wh[1]
       /\ imgHeight = wh[2]
       /\ imgMask \in [1..(wh[1] * wh[2]) -> BOOLEAN]
  /\ imgTuning \in {[DEFAULT_TUNING EXCEPT !.dilateRadius = r] : r \in DilateRadii}
  /\ imgData = <<>>
  /\ imgDilated = <<>>
  /\ imgOut = <<>>
  /\ imgStage = "dilate"
  /\ imgError = ""

DilateReturn ==
  /\ imgStage = "dilate"
  /\ imgDilated' = dilateMask(imgMask, imgWidth, imgHeight, imgTuning.dilateRadius)
  /\ imgStage' = "dilated"
  /\ UNCHANGED <<imgWidth, imgHeight, imgData, imgTuning, imgMask, imgOut, imgError>>
  /\ UNCHANGED <<batchVars, viewerVars, unitVars>>

DilateInit == BatchInit /\ ViewerUnmounted /\ DilateCalled /\ UnitsIdle

DilateNext == DilateReturn

SpecDilate == DilateInit /\ [][DilateNext]_vars

Abs(n) == IF n < 0 THEN -n ELSE n

\* the Chebyshev distance of the pixels p and q of a buffer of that width
Chebyshev(p, q, width) ==
  Max(Abs(XOf(p, width) - XOf(q, width)), Abs(YOf(p, width) - YOf(q, width)))

\* C12: dilateMask with radius 0 returns the mask; with radius r in 1..3 a
\* pixel of the buffer is set in the result exactly when some pixel set in
\* the mask is within Chebyshev distance r of it.
C12_DilationIsChebyshev ==
  imgStage = "dilated" =>
    IF imgTuning.dilateRadius = 0 THEN imgDilated = imgMask
    ELSE /\ DOMAIN imgDilated = 1..(imgWidth * imgHeight)
         /\ \A p \in 1..(imgWidth * imgHeight) :
              imgDilated[p] <=>
                \E q \in 1..(imgWidth * imgHeight) :
                  imgMask[q] /\ Chebyshev(p, q, imgWidth) <= imgTuning.dilateRadius

\* one set pixel, radius 1, in a buffer of two rows: the clipped square has
\* a diagonal neighbour and leaves a pixel outside
C12_Witness ==
  /\ imgStage = "dilated"
  /\ imgTuning.dilateRadius = 1
  /\ imgHeight = 2
  /\ Cardinality({q \in 1..Len(imgMask) : imgMask[q]}) = 1
  /\ \E p \in 1..Len(imgMask) : ~imgDilated[p]
  /\ \E p, q \in 1..Len(imgMask) :
       /\ imgMask[q]
       /\ imgDilated[p]
       /\ XOf(p, imgWidth) # XOf(q, imgWidth)
       /\ YOf(p, imgWidth) # YOf(q, imgWidth)

\* ------------------------------------------------------------------------
\* the mask loop of processImageRemoveRed on its own
\* ------------------------------------------------------------------------

\* channel values that give the hues 0, 5, 25, 330 and 355 among others
Levels == {0, 20, 100, 120, 240, 255}
Alphas == {9, 10, 255}

\* the mask loop was entered with a buffer of one pixel
DetectCalled ==
  /\ imgWidth = 1
  /\ imgHeight = 1
  /\ imgData \in [1..1 -> Levels \X Levels \X Levels \X Alphas]
  /\ imgTuning \in Tunings
  /\ imgMask = <<>>
  /\ imgDilated = <<>>
  /\ imgOut = <<>>
  /\ imgStage = "detect"
  /\ imgError = ""

DetectReturn ==
  /\ imgStage = "detect"
  /\ imgMask' = DetectMask(imgData, imgTuning)
  /\ imgStage' = "detected"
  /\ UNCHANGED <<imgWidth, imgHeight, imgData, imgTuning, imgDilated, imgOut, imgError>>
  /\ UNCHANGED <<batchVars, viewerVars, unitVars>>

DetectInit == BatchInit /\ ViewerUnmounted /\ DetectCalled /\ UnitsIdle

DetectNext == DetectReturn

SpecDetect == DetectInit /\ [][DetectNext]_vars

\* Reference HSV of a pixel, in whole units: the hue is RefHueNum / RefDelta
\* degrees, reduced into [0, 360) by the mathematical modulus
RefMax(px) == CHOOSE m \in {px[1], px[2], px[3]} : \A x \in {px[1], px[2], px[3]} : m >= x
RefMin(px) == CHOOSE m \in {px[1], px[2], px[3]} : \A x \in {px[1], px[2], px[3]} : m <= x
RefDelta(px) == RefMax(px) - RefMin(px)
RefHueNum(px) ==
  IF RefDelta(px) = 0 THEN 0
  ELSE IF RefMax(px) = px[1]
       THEN (60 * (px[2] - px[3])) % (360 * RefDelta(px))
  ELSE IF RefMax(px) = px[2]
       THEN (60 * (px[3] - px[1]) + 120 * RefDelta(px)) % (360 * RefDelta(px))
  ELSE (60 * (px[1] - px[2]) + 240 * RefDelta(px)) % (360 * RefDelta(px))

RefHue(px) == <<RefHueNum(px), IF RefDelta(px) = 0 THEN 1 ELSE RefDelta(px)>>

\* s >= sMin and v >= vMin, the thresholds in hundredths
RefSaturated(px, tuning) ==
  IF RefMax(px) = 0 THEN 0 >= tuning.sMin
  ELSE 100 * RefDelta(px) >= tuning.sMin * RefMax(px)

RefBright(px, tuning) == 100 * RefMax(px) >= tuning.vMin * 255

\* C13: the detector flags a pixel exactly when its alpha is not below the
\* discard threshold, its saturation and value reach sMin and vMin, and its
\* hue, computed by the reference construction, is in hueA or in hueB under
\* the detector's membership rule.
C13_DetectorMatchesReference ==
  imgStage = "detected" =>
    LET px == imgData[1]
    IN imgMask[1] <=>
         /\ px[4] >= 10
         /\ RefSaturated(px, imgTuning)
         /\ RefBright(px, imgTuning)
         /\ \/ inHueRange(RefHue(px), imgTuning.hueA[1], imgTuning.hueA[2])
            \/ inHueRange(RefHue(px), imgTuning.hueB[1], imgTuning.hueB[2])

\* hue 355 under the default profile
C13_Witness ==
  /\ imgStage = "detected"
  /\ imgTuning = DEFAULT_TUNING
  /\ imgData[1] = <<240, 0, 20, 255>>
  /\ RefHue(imgData[1]) = <<355 * 240, 240>>
  /\ imgMask[1]

\* ------------------------------------------------------------------------
\* inHueRange on its own
\* ------------------------------------------------------------------------

HueSamples == {0, 5, 25, 330, 355, 359}

HueCalled ==
  /\ hueArgs \in HueSamples \X HueSamples \X HueSamples
  /\ huePc = "called"
  /\ hueMember = FALSE

HueReturn ==
  /\ huePc = "called"
  /\ hueMember' = inHueRange(<<hueArgs[1], 1>>, hueArgs[2], hueArgs[3])
  /\ huePc' = "returned"
  /\ UNCHANGED <<hueArgs, resolverVars, storeVars, downloads>>
  /\ UNCHANGED <<batchVars, viewerVars, imageVars>>

HueInit == BatchInit /\ ViewerUnmounted /\ ImageIdle /\ ResolverIdle /\ HueCalled

HueNext == HueReturn

SpecHue == HueInit /\ [][HueNext]_vars

\* C14: a range with lower <= upper is the half-open interval
\* [lower, upper); a range with lower > upper wraps, and h is a member iff
\* h >= lower or h <= upper.
C14_HalfOpenRange ==
  huePc = "returned" =>
    LET h == hueArgs[1]
        lower == hueArgs[2]
        upper == hueArgs[3]
    IN hueMember <=> IF lower <= upper THEN h >= lower /\ h < upper
                     ELSE h >= lower \/ h <= upper

\* ------------------------------------------------------------------------
\* getTuningFromGemini
\* ------------------------------------------------------------------------
\* Numbers are held in the unit of the field they are read into: sMin and
\* vMin in hundredths, hue bounds in degrees, radii in tenths before
\* Math.round and in whole pixels after it.

\* Math.min, Math.max, Math.round and % on numbers that may be NaN
JsMin(a, b) == IF a.nan \/ b.nan THEN NaN ELSE Finite(Min(a.n, b.n))
JsMax(a, b) == IF a.nan \/ b.nan THEN NaN ELSE Finite(Max(a.n, b.n))
JsRoundTenths(a) == IF a.nan THEN NaN ELSE Finite((a.n + 5) \div 10)
JsRem(a, m) ==
  IF a.nan THEN NaN
  ELSE IF a.n < 0 THEN Finite(-((-a.n) % m)) ELSE Finite(a.n % m)
JsAdd(a, k) == IF a.nan THEN NaN ELSE Finite(a.n + k)

\* the number an arithmetic operator makes of a JSON value
RECURSIVE ToNumber(_)
ToNumber(value) ==
  CASE value.kind = "num" -> Finite(value.n)
    [] value.kind = "null" -> Finite(0)
    [] value.kind = "arr" ->
         IF Len(value.items) = 0 THEN Finite(0)
         ELSE IF Len(value.items) = 1 THEN ToNumber(value.items[1])
         ELSE NaN
    [] OTHER -> NaN

\* parsed.x ?? fallback
Nullish(value, fallback) ==
  IF value.kind \in {"absent", "null"} THEN fallback ELSE value

\* range[i - 1]
Index(range, i) ==
  CASE range.kind = "arr" ->
         IF i <= Len(range.items) THEN range.items[i] ELSE Absent
    [] range.kind = "str" -> Str
    [] OTHER -> Absent

\* Number.isNaN(value): true of the number NaN only, which no JSON value is
IsNumberNaN(value) == FALSE

clamp01(value) ==
  IF IsNumberNaN(value) THEN Finite(0)
  ELSE JsMax(Finite(0), JsMin(Finite(100), ToNumber(value)))

clampInt(value, min, max) ==
  LET n == JsRoundTenths(ToNumber(value))
  IN JsMax(Finite(min), JsMin(Finite(max), n))

normalizeHueRange(range) ==
  LET a == JsRem(JsAdd(JsRem(ToNumber(Index(range, 1)), 360), 360), 360)
      b == JsRem(JsAdd(JsRem(ToNumber(Index(range, 2)), 360), 360), 360)
  IN <<a, b>>

\* DEFAULT_TUNING.x as a value of the field x
DefaultValue ==
  [sMin |-> Num(DEFAULT_TUNING.sMin), vMin |-> Num(DEFAULT_TUNING.vMin),
   hueA |-> Arr(<<Num(DEFAULT_TUNING.hueA[1]), Num(DEFAULT_TUNING.hueA[2])>>),
   hueB |-> Arr(<<Num(DEFAULT_TUNING.hueB[1]), Num(DEFAULT_TUNING.hueB[2])>>),
   dilateRadius |-> Num(10 * DEFAULT_TUNING.dilateRadius),
   inpaintRadius |-> Num(10 * DEFAULT_TUNING.inpaintRadius)]

\* the object literal returned after JSON.parse
ProfileOf(obj) ==
  [sMin |-> clamp01(Nullish(obj.sMin, DefaultValue.sMin)),
   vMin |-> clamp01(Nullish(obj.vMin, DefaultValue.vMin)),
   hueA |-> normalizeHueRange(Nullish(obj.hueA, DefaultValue.hueA)),
   hueB |-> normalizeHueRange(Nullish(obj.hueB, DefaultValue.hueB)),
   dilateRadius |-> clampInt(Nullish(obj.dilateRadius, DefaultValue.dilateRadius), 0, 3),
   inpaintRadius |-> clampInt(Nullish(obj.inpaintRadius, DefaultValue.inpaintRadius), 1, 5)]

\* A response text is a sequence of tokens: the two braces, "f" for the
\* members of an object ("key": value, ...), "x" for any other text.
Tokens == {"{", "}", "f", "x"}
Texts == UNION { [1..n -> Tokens] : n \in 0..MaxTextLen }

\* text.indexOf(c) and text.lastIndexOf(c), counted from 1; 0 stands for -1
IndexOfToken(text, c) ==
  IF \E i \in 1..Len(text) : text[i] = c
  THEN CHOOSE i \in 1..Len(text) :
         text[i] = c /\ \A j \in 1..(i - 1) : text[j] # c
  ELSE 0

LastIndexOfToken(text, c) ==
  IF \E i \in 1..Len(text) : text[i] = c
  THEN CHOOSE i \in 1..Len(text) :
         text[i] = c /\ \A j \in (i + 1)..Len(text) : text[j] # c
  ELSE 0

\* the span from the first '{' to the last '}'; <<>> stands for null
extractJsonObject(text) ==
  LET start == IndexOfToken(text, "{")
      end == LastIndexOfToken(text, "}")
  IN IF start = 0 \/ end = 0 \/ end <= start THEN <<>>
     ELSE SubSeq(text, start, end)

\* the values a suggestion can carry for each key
SaturationValues == {Absent, Null, Num(-50), Num(50), Num(200), Str}
ValueValues == {Absent, Num(150)}
HueAValues ==
  {Absent, Arr(<<Num(370), Num(10)>>), Arr(<<Num(-30), Num(360)>>),
   Arr(<<Num(370)>>), Num(5), Str}
HueBValues == {Absent, Arr(<<Num(350), Num(10)>>)}
DilateValues == {Absent, Num(25), Num(-10), Num(90), Str}
InpaintValues == {Absent, Num(4), Num(60)}

\* what JSON.parse can return for a span; {} when it throws
ParseResults(span) ==
  IF span = <<"{", "}">> THEN {EmptyObject}
  ELSE IF span = <<"{", "f", "}">>
  THEN [sMin : SaturationValues, vMin : ValueValues, hueA : HueAValues,
        hueB : HueBValues, dilateRadius : DilateValues,
        inpaintRadius : InpaintValues] \ {EmptyObject}
  ELSE {}

\* try { ... } catch { return DEFAULT_TUNING }
TryRethrow(threw, value) ==
  IF threw THEN [pc |-> "raised", result |-> DefaultProfile]
  ELSE [pc |-> "done", result |-> value]

Try(threw, value) ==
  IF threw THEN [pc |-> "done", result |-> DefaultProfile]
  ELSE [pc |-> "done", result |-> value]

\* getTuningFromGemini(imageDataUrl) was called
ResolverCalled ==
  /\ genAI \in BOOLEAN
  /\ base64Data \in BOOLEAN
  /\ queryThrew = FALSE
  /\ responseText = <<>>
  /\ parsed = EmptyObject
  /\ resolverPc = "called"
  /\ tuningResult = DefaultProfile

\* the function up to await model.generateContent(...)
ResolveStart ==
  /\ resolverPc = "called"
  /\ resolverPc' = IF genAI /\ base64Data THEN "query" ELSE "done"
  /\ UNCHANGED <<genAI, base64Data, queryThrew, responseText, parsed, tuningResult>>
  /\ UNCHANGED <<hueVars, storeVars, downloads, batchVars, viewerVars, imageVars>>

\* generateContent rejected, or result.response.text() threw
QueryFailed ==
  /\ resolverPc = "query"
  /\ queryThrew' = TRUE
  /\ resolverPc' = Try(TRUE, DefaultProfile).pc
  /\ tuningResult' = Try(TRUE, DefaultProfile).result
  /\ UNCHANGED <<genAI, base64Data, responseText, parsed>>
  /\ UNCHANGED <<hueVars, storeVars, downloads, batchVars, viewerVars, imageVars>>

\* generateContent resolved with a text: the rest of the function
QueryDone(text) ==
  /\ resolverPc = "query"
  /\ text \in Texts
  /\ responseText' = text
  /\ LET json == extractJsonObject(text)
     IN IF json = <<>>
        THEN /\ resolverPc' = "done"
             /\ UNCHANGED <<parsed, tuningResult>>
        ELSE IF ParseResults(json) = {}
        THEN /\ resolverPc' = Try(TRUE, DefaultProfile).pc
             /\ tuningResult' = Try(TRUE, DefaultProfile).result
             /\ UNCHANGED parsed
        ELSE \E obj \in ParseResults(json) :
               /\ parsed' = obj
               /\ resolverPc' = Try(FALSE, ProfileOf(obj)).pc
               /\ tuningResult' = Try(FALSE, ProfileOf(obj)).result
  /\ UNCHANGED <<genAI, base64Data, queryThrew>>
  /\ UNCHANGED <<hueVars, storeVars, downloads, batchVars, viewerVars, imageVars>>

ResolverInit == BatchInit /\ ViewerUnmounted /\ ImageIdle /\ HueIdle /\ ResolverCalled

ResolverNext ==
  \/ ResolveStart
  \/ QueryFailed
  \/ \E text \in Texts : QueryDone(text)

SpecResolver == ResolverInit /\ [][ResolverNext]_vars

\* ------------------------------------------------------------------------
\* Properties of the tuning resolver
\* ------------------------------------------------------------------------

Resolved == resolverPc = "done"

\* a suggestion was parsed
Suggested ==
  /\ Resolved
  /\ extractJsonObject(responseText) # <<>>
  /\ ParseResults(extractJsonObject(responseText)) # {}

\* a finite number between lo and hi
Within(x, lo, hi) == ~x.nan /\ lo <= x.n /\ x.n <= hi

\* C15: the resolved profile has sMin and vMin in [0, 1], the four hue
\* bounds in [0, 360), dilateRadius an integer in 0..3 and inpaintRadius an
\* integer in 1..5, whatever the parsed suggestion was.
C15_ProfileInRange ==
  Suggested =>
    /\ Within(tuningResult.sMin, 0, 100)
    /\ Within(tuningResult.vMin, 0, 100)
    /\ \A i \in 1..2 : /\ Within(tuningResult.hueA[i], 0, 359)
                      /\ Within(tuningResult.hueB[i], 0, 359)
    /\ Within(tuningResult.dilateRadius, 0, 3)
    /\ Within(tuningResult.inpaintRadius, 1, 5)

Fields == {"sMin", "vMin", "hueA", "hueB", "dilateRadius", "inpaintRadius"}

\* C16: every field absent from the parsed suggestion has the value of the
\* default profile in the result; for {"sMin": 2, "hueA": [370, 10]} the
\* result has sMin = 1, hueA = [10, 10] and the default in every other field.
C16_AbsentFieldsDefault ==
  /\ Suggested =>
       \A f \in Fields : parsed[f].kind = "absent" => tuningResult[f] = DefaultProfile[f]
  /\ (Suggested /\ parsed = [EmptyObject EXCEPT !.sMin = Num(200),
                                                !.hueA = Arr(<<Num(370), Num(10)>>)])
       => tuningResult = [DefaultProfile EXCEPT !.sMin = Finite(100),
                                                !.hueA = <<Finite(10), Finite(10)>>]

\* the text has a '{' before a '}'
HasSpan(text) ==
  \E i, j \in 1..Len(text) : i < j /\ text[i] = "{" /\ text[j] = "}"

\* C17: the resolver never raises, and it returns the default profile when
\* no client is configured, the sample has no payload, the query throws,
\* the response has no span from a '{' to a later '}', or the span from the
\* first '{' to the last '}' does not parse.
C17_NeverRaises ==
  /\ resolverPc # "raised"
  /\ (/\ Resolved
      /\ \/ ~genAI
         \/ ~base64Data
         \/ queryThrew
         \/ ~HasSpan(responseText)
         \/ ParseResults(extractJsonObject(responseText)) = {})
     => tuningResult = DefaultProfile

C17_Witness ==
  /\ Resolved
  /\ genAI
  /\ base64Data
  /\ ~queryThrew
  /\ HasSpan(responseText)
  /\ IndexOfToken(responseText, "}") < LastIndexOfToken(responseText, "}")
  /\ tuningResult = DefaultProfile

\* C18: under the default profile the white 3x3 page with a red centre has
\* the detection mask {centre}, a dilated mask of all nine pixels and a
\* fully white result; and whenever the dilated mask covers a buffer, the
\* result has R = G = B = 255 at every pixel.
C18_FullyMaskedIsWhite ==
  Reconstructed =>
    /\ (\A p \in 1..Len(imgData) : imgDilated[p]) =>
         \A p \in 1..Len(imgData) :
           imgOut[p][1] = 255 /\ imgOut[p][2] = 255 /\ imgOut[p][3] = 255
    /\ (imgData = WhiteWithRedCentre /\ imgTuning = DEFAULT_TUNING) =>
         /\ imgMask = [p \in 1..9 |-> p = 5]
         /\ imgDilated = [p \in 1..9 |-> TRUE]
         /\ imgOut = [p \in 1..9 |-> <<255, 255, 255, 255>>]

C18_Witness ==
  /\ Reconstructed
  /\ imgData = WhiteWithRedCentre
  /\ imgTuning = DEFAULT_TUNING
  /\ imgOut[5] = <<255, 255, 255, 255>>

\* ------------------------------------------------------------------------
\* Termination of a batch run
\* ------------------------------------------------------------------------

\* the external call a job is suspended in returns or fails
CallReturns ==
  \E r \in 1..MaxRuns : LoadDone(r) \/ RenderDone(r) \/ CleanDone(r) \/ DestroyDone(r)

\* every external call a run is suspended in eventually returns or fails;
\* at most one run and one job are in flight, so at most one call is pending
CallsReturn == WF_vars(CallReturns)

SpecLive == Init /\ [][Next]_vars /\ CallsReturn

Processing(id) == id \in DOMAIN fileStates /\ fileStates[id].isBatchProcessing

\* a run has started and not returned, a job is in the processing state, or
\* the running flag is set
Busy ==
  \/ ActiveRuns # {}
  \/ \E id \in DOMAIN fileStates : Processing(id)
  \/ isGlobalProcessing

\* C20: if every external call returns or fails, every started run returns,
\* every document job leaves the processing state and the running flag is
\* cleared, also when jobs fail: whenever any of them is pending, a state
\* follows in which none is.
C20_RunTerminates == Busy ~> ~Busy

\* a run has returned and left a failed and a finished document behind
C20_Witness ==
  /\ runs # <<>>
  /\ ActiveRuns = {}
  /\ ~isGlobalProcessing
  /\ \E i, j \in DOMAIN fileStates :
       /\ fileStates[i].error # ""
       /\ ~fileStates[i].isBatchProcessing
       /\ fileStates[j].error = ""
       /\ fileStates[j].processedPages # <<>>

\* ------------------------------------------------------------------------
\* Reconstruction: visiting order and the neighbourhood mean
\* ------------------------------------------------------------------------

\* the inpaint loop visiting the pixels from p down to the first
RECURSIVE InpaintLoopDown(_, _, _, _, _, _)
InpaintLoopDown(out, dilated, width, height, radius, p) ==
  IF p < 1 THEN out
  ELSE IF ~Reconstructs(dilated, p)
  THEN InpaintLoopDown(out, dilated, width, height, radius, p - 1)
  ELSE InpaintLoopDown([out EXCEPT ![p] = InpaintPixel(out, dilated, width, height, radius, p)],
                       dilated, width, height, radius, p - 1)

\* every masked pixel computed from the input buffer alone
InpaintFromOriginal ==
  [p \in 1..Len(imgData) |->
     IF Reconstructs(imgDilated, p)
     THEN InpaintPixel(imgData, imgDilated, imgWidth, imgHeight, imgTuning.inpaintRadius, p)
     ELSE imgData[p]]

\* C21: the result of reconstruction does not depend on the visiting order:
\* it equals the result of visiting the pixels in the opposite order and the
\* result of computing every masked pixel from the original buffer.
C21_OrderIndependent ==
  Reconstructed =>
    /\ imgOut = InpaintLoopDown(imgData, imgDilated, imgWidth, imgHeight,
                                imgTuning.inpaintRadius, Len(imgData))
    /\ imgOut = InpaintFromOriginal

\* a masked pixel is averaged after a masked pixel within its radius was
\* rewritten
C21_Witness ==
  /\ Reconstructed
  /\ \E p, q \in 1..Len(imgData) :
       /\ q < p
       /\ imgDilated[p]
       /\ imgDilated[q]
       /\ q \in Square(p, imgWidth, imgHeight, imgTuning.inpaintRadius)
       /\ imgOut[q] # imgData[q]
       /\ UnmaskedNear(p) # {}
       /\ imgOut[p] # imgData[p]

\* the unmasked pixels of the buffer within Chebyshev distance inpaintRadius
MeanOver(p) ==
  {q \in 1..Len(imgData) :
     /\ Chebyshev(p, q, imgWidth) <= imgTuning.inpaintRadius
     /\ ~imgDilated[q]}

\* v is sum / count rounded to the nearest integer (a half rounds up)
IsRoundedMean(v, sum, count) ==
  /\ 2 * count * v - count <= 2 * sum
  /\ 2 * sum < 2 * count * v + count

\* C22: a masked pixel with an unmasked pixel within Chebyshev distance
\* inpaintRadius gets, in each of R, G and B, the rounded mean of that
\* channel over exactly those unmasked pixels.
C22_MeanOfUnmasked ==
  Reconstructed =>
    \A p \in 1..Len(imgData) :
      (imgDilated[p] /\ MeanOver(p) # {}) =>
        \A c \in 1..3 :
          IsRoundedMean(imgOut[p][c], SumChannel(imgData, MeanOver(p), c),
                        Cardinality(MeanOver(p)))

\* a mean over two unmasked pixels that is not a whole number, next to a
\* masked pixel and to the edge, with the two radii different
C22_Witness ==
  /\ Reconstructed
  /\ imgTuning.inpaintRadius # imgTuning.dilateRadius
  /\ \E p, q \in 1..Len(imgData) :
       /\ p # q
       /\ imgDilated[p]
       /\ imgDilated[q]
       /\ Chebyshev(p, q, imgWidth) <= imgTuning.inpaintRadius
       /\ Cardinality(MeanOver(p)) >= 2
       /\ Cardinality(Square(p, imgWidth, imgHeight, imgTuning.inpaintRadius))
            < (2 * imgTuning.inpaintRadius + 1) * (2 * imgTuning.inpaintRadius + 1)
       /\ \E c \in 1..3 :
            SumChannel(imgData, MeanOver(p), c) % Cardinality(MeanOver(p)) # 0

\* ------------------------------------------------------------------------
\* The viewer: overlapping renders, the cache and the reported image
\* ------------------------------------------------------------------------

\* the render tasks drawing to the canvas that were not cancelled
LiveTasks ==
  {t \in 1..Len(renders) : renders[t].pc = "rendering" /\ t \notin cancelledTasks}

\* C23: at no time are two render tasks that were not cancelled drawing to
\* the canvas.
C23_OneLiveRenderTask == Cardinality(LiveTasks) <= 1

\* the document a raster of the viewer was drawn from
FileOfImage(dataUrl) == dataUrl[2]

\* C24: every entry of the render cache was rendered from the document the
\* viewer currently shows: a render of the previous document inserts nothing
\* once the cache was cleared for the new one.
C24_CacheOfCurrentFile ==
  file # 0 =>
    \A x \in DOMAIN renderCache : FileOfImage(renderCache[x].dataUrl) = file

\* C25: the image recorded as the current image of a document is a raster
\* of that document.
C25_ImageOfSameFile ==
  \A f \in ViewerFiles :
    imageOfFile[f] # NoImage => FileOfImage(imageOfFile[f]) = f

\* ------------------------------------------------------------------------
\* The workspace: the work set, the flags, the state entries, the active file
\* ------------------------------------------------------------------------

\* C26: while a batch run is active no step adds a file to the list of
\* uploaded files, removes one from it or resets the workspace.
C26_WorkSetFrozen ==
  [][ActiveRuns # {} => uploadedFiles' = uploadedFiles]_vars

\* ------------------------------------------------------------------------
\* Persistence of the session and its restoration after a reload
\* ------------------------------------------------------------------------

\* the persistence effect, run after a commit that changed uploadedFiles,
\* fileStates or activeFileId, with its writes completed
PersistEffect ==
  /\ hydrate.pc = "done"            \* if (!hasHydratedRef.current) return
  /\ UNCHANGED <<batchVars, viewerVars, imageVars, hueVars, resolverVars, downloads>>
  /\ UNCHANGED <<hydrate, reloads>>
  /\ IF Len(uploadedFiles) = 0 /\ DOMAIN fileStates = {}
     THEN /\ localStorage' = NoPayload
          /\ storedData' = {}
          /\ storedStates' = <<>>
     ELSE /\ localStorage' = [present |-> TRUE, activeFileId |-> activeFileId,
                              files |-> uploadedFiles]
          /\ storedData' = storedData \cup FileIds
          /\ storedStates' =
               [x \in (DOMAIN storedStates) \cup (FileIds \cap DOMAIN fileStates) |->
                  IF x \in FileIds \cap DOMAIN fileStates
                  THEN fileStates[x] ELSE storedStates[x]]

\* the page is reloaded: every state of the component is lost, the calls in
\* progress are abandoned, and the hydration effect reads the payload
Reload ==
  /\ reloads < MaxReloads
  /\ reloads' = reloads + 1
  /\ uploadedFiles' = <<>>
  /\ activeFileId' = 0
  /\ fileStates' = <<>>
  /\ isGlobalProcessing' = FALSE
  /\ runs' = <<>>
  /\ adds' = <<>>
  /\ downloads' = <<>>
  /\ hydrate' = IF localStorage.present
                THEN [pc |-> "loading", raw |-> localStorage]
                ELSE [pc |-> "done", raw |-> NoPayload]
  /\ UNCHANGED <<nextId, localStorage, storedData, storedStates>>
  /\ UNCHANGED <<viewerVars, imageVars, hueVars, resolverVars>>

\* the files of the payload that still have their data in IndexedDB
RestoredFiles == SelectSeq(hydrate.raw.files, LAMBDA id : id \in storedData)

\* parsed.activeFileId if it names a restored file, else the first of them
validActiveIdTrusted(payload, restoredFiles) == payload.activeFileId

validActiveId(payload, restoredFiles) ==
  IF /\ payload.activeFileId # 0
     /\ \E i \in 1..Len(restoredFiles) : restoredFiles[i] = payload.activeFileId
  THEN payload.activeFileId
  ELSE IF Len(restoredFiles) > 0 THEN restoredFiles[1] ELSE 0

\* the rest of the hydration effect, after its reads of IndexedDB
HydrateDone ==
  /\ hydrate.pc = "loading"
  /\ hydrate' = [hydrate EXCEPT !.pc = "done"]
  /\ UNCHANGED <<isGlobalProcessing, runs, adds, nextId, reloads>>
  /\ UNCHANGED <<viewerVars, imageVars, hueVars, resolverVars, downloads>>
  /\ \/ \* a read failed: catch
        /\ localStorage' = NoPayload
        /\ storedData' = {}
        /\ storedStates' = <<>>
        /\ UNCHANGED <<uploadedFiles, activeFileId, fileStates>>
     \/ LET restoredIds == { RestoredFiles[i] : i \in 1..Len(RestoredFiles) }
        IN /\ uploadedFiles' = RestoredFiles
           /\ fileStates' = [id \in restoredIds |->
                               IF id \in DOMAIN storedStates THEN storedStates[id]
                               ELSE createInitialFileState]
           /\ activeFileId' = validActiveId(hydrate.raw, RestoredFiles)
           /\ UNCHANGED <<localStorage, storedData, storedStates>>

SessionNext ==
  \/ Next
  \/ PersistEffect
  \/ Reload
  \/ HydrateDone

SpecSession == Init /\ [][SessionNext]_vars

\* C27: when no batch run is active no file has isBatchProcessing set, also
\* in the state restored from the persisted snapshot after a reload.
C27_FlagOnlyInFlight ==
  ActiveRuns = {} => \A id \in DOMAIN fileStates : ~fileStates[id].isBatchProcessing

\* ------------------------------------------------------------------------
\* The workspace without batch runs: overlapping adds, reloads
\* ------------------------------------------------------------------------

\* handleFilesAdded, with up to MaxOverlap calls suspended at a time
OverlappingAdd(files) ==
  /\ AddsWithin(files, MaxOverlap, MaxNewIds)
  /\ FilesAddedCall(files)

WorkspaceNext ==
  \/ \E files \in AddInputs : OverlappingAdd(files)
  \/ \E a \in 1..MaxOverlap : FilesRead(a)
  \/ \E id \in 1..MaxNewIds : handleSelectFile(id)
  \/ \E id \in 1..MaxNewIds : handleRemoveFile(id)
  \/ handleResetWorkspace
  \/ PersistEffect
  \/ Reload
  \/ HydrateDone

SpecWorkspace == Init /\ [][WorkspaceNext]_vars

\* C28: the number of uploaded files never exceeds MAX_UPLOAD_FILES.
C28_UploadLimit == Len(uploadedFiles) <= MAX_UPLOAD_FILES

\* C30: while the list of uploaded files is not empty activeFileId is the id
\* of one of them, and while it is empty activeFileId is ''.
C30_ActiveFileValid ==
  IF uploadedFiles = <<>> THEN activeFileId = 0 ELSE activeFileId \in FileIds

\* a session was restored whose payload names an active file that was not
\* restored: the first restored file is active
C30_Witness ==
  /\ reloads > 0
  /\ hydrate.pc = "done"
  /\ hydrate.raw.present
  /\ hydrate.raw.activeFileId # 0
  /\ hydrate.raw.activeFileId \notin FileIds
  /\ uploadedFiles # <<>>
  /\ uploadedFiles = RestoredFiles
  /\ activeFileId = uploadedFiles[1]

\* ------------------------------------------------------------------------
\* Downloading the processed PDF of the active file
\* ------------------------------------------------------------------------

\* uploadedFiles.find((file) => file.id === activeFileId) || uploadedFiles[0]
activeFile ==
  IF uploadedFiles = <<>> THEN 0
  ELSE IF activeFileId \in FileIds THEN activeFileId ELSE uploadedFiles[1]

\* !previewImage || activeState.isBatchProcessing || isGlobalProcessing
downloadDisabled ==
  \/ StateOf(fileStates, activeFile).processedPages = <<>>
  \/ StateOf(fileStates, activeFile).isBatchProcessing
  \/ isGlobalProcessing

DownloadError == "Failed to fetch"

\* the part of handleDownloadPdf before await PDFDocument.create()
handleDownloadPdf ==
  /\ activeFile # 0
  /\ ~downloadDisabled              \* the button is disabled otherwise
  /\ Len(downloads) < MaxDownloads
  /\ downloads' = Append(downloads, activeFile)
  /\ UNCHANGED <<batchVars, viewerVars, imageVars, hueVars, resolverVars, storeVars>>

\* the rest of handleDownloadPdf: the PDF was saved, or a step threw
DownloadSettled(d) ==
  /\ d \in 1..Len(downloads)
  /\ downloads' = RemoveAt(downloads, d)
  /\ UNCHANGED <<uploadedFiles, activeFileId, isGlobalProcessing, runs, adds, nextId>>
  /\ UNCHANGED <<viewerVars, imageVars, hueVars, resolverVars, storeVars>>
  /\ \/ UNCHANGED fileStates
     \/ fileStates' = updateFileState(fileStates, downloads[d],
                        [StateOf(fileStates, downloads[d]) EXCEPT !.error = DownloadError])

DownloadNext ==
  \/ Next
  \/ handleDownloadPdf
  \/ \E d \in 1..MaxDownloads : DownloadSettled(d)

SpecDownload == Init /\ [][DownloadNext]_vars

\* C29: every key of fileStates is the id of an uploaded file.
C29_StatesOfUploadedFiles == DOMAIN fileStates \subseteq FileIds

====
